---- MODULE Spec2Model ----
(***************************************************************************)
(* Book entity and SQLite-backed Database of the Personal Reading          *)
(* Management System (book.cpp, database.cpp).                             *)
(*                                                                         *)
(* Text is a sequence of one-character strings; "NUL" stands for the byte  *)
(* 0 that a std::string may hold.  A time_point is a number of clock       *)
(* ticks; the engine stores time_t seconds.  An optional time_point is the *)
(* empty set (std::nullopt) or a singleton.                                *)
(***************************************************************************)
EXTENDS Integers, Sequences, FiniteSets, TLC

\* ---------------------------------------------------------------- bounds
MaxId == 2          \* rows inserted over the life of one database file
MaxTime == 1        \* last clock tick read during a database call
TicksPerSec == 2    \* clock ticks per time_t second
MaxQueryLen == 2    \* longest search query
MaxPages == 2       \* largest page count a Book is constructed with

Times == 0..MaxTime
Ids == 0..(MaxId + 1)

\* ------------------------------------------------------------ exceptions
NoExc == "none"
InvalidArgument == "std::invalid_argument"
RuntimeError == "std::runtime_error"

\* ------------------------------------------------------------------ text
NUL == "NUL"
QueryChars == {"a", "A", "%", "_", NUL}

Empty == <<>>
Isbn13 == [i \in 1..13 |-> "9"]

\* const char* view of a std::string: the bytes before the first NUL
RECURSIVE c_str(_)
c_str(s) ==
    IF s = <<>> \/ Head(s) = NUL THEN <<>> ELSE <<Head(s)>> \o c_str(Tail(s))

\* std::chrono::system_clock::to_time_t / from_time_t
to_time_t(t) == t \div TicksPerSec
from_time_t(s) == s * TicksPerSec

\* ------------------------------------------------------------------ Book
\* result of a Book operation: the exception raised, if any, and the object
Done(b) == [exc |-> NoExc, book |-> b]
Throw(e, b) == [exc |-> e, book |-> b]

\* run F on the object unless an earlier call already raised
Then(r, F(_)) == IF r.exc # NoExc THEN r ELSE F(r.book)

\* Book::Book()
BookDefault(now) ==
    [ m_id |-> 0, m_title |-> Empty, m_author |-> Empty, m_isbn |-> Empty,
      m_pageCount |-> 0, m_currentPage |-> 0,
      m_startDate |-> {}, m_completionDate |-> {},
      m_genre |-> Empty, m_publisher |-> Empty, m_yearPublished |-> 0,
      m_notes |-> Empty, m_review |-> Empty, m_rating |-> 0,
      m_coverPath |-> Empty, m_dateAdded |-> now, m_status |-> 0 ]

\* the constructor without the test of the ISBN
BookParam_anyIsbn(title, author, isbn, pageCount, now) ==
    LET b == [BookDefault(now) EXCEPT !.m_title = title, !.m_author = author,
                                      !.m_isbn = isbn, !.m_pageCount = pageCount]
    IN  IF pageCount < 0 THEN Throw(InvalidArgument, b)
        ELSE IF title = Empty THEN Throw(InvalidArgument, b)
        ELSE IF author = Empty THEN Throw(InvalidArgument, b)
        ELSE Done(b)

\* Book::Book(title, author, isbn, pageCount)
BookParam(title, author, isbn, pageCount, now) ==
    LET b == [BookDefault(now) EXCEPT !.m_title = title, !.m_author = author,
                                      !.m_isbn = isbn, !.m_pageCount = pageCount]
    IN  IF pageCount < 0 THEN Throw(InvalidArgument, b)
        ELSE IF title = Empty THEN Throw(InvalidArgument, b)
        ELSE IF author = Empty THEN Throw(InvalidArgument, b)
        ELSE IF isbn # Empty /\ Len(isbn) # 13 THEN Throw(InvalidArgument, b)
        ELSE Done(b)

setId(b, id) ==
    IF id < 0 THEN Throw(InvalidArgument, b)
    ELSE Done([b EXCEPT !.m_id = id])

setTitle(b, title) ==
    IF title = Empty THEN Throw(InvalidArgument, b)
    ELSE Done([b EXCEPT !.m_title = title])

setAuthor(b, author) ==
    IF author = Empty THEN Throw(InvalidArgument, b)
    ELSE Done([b EXCEPT !.m_author = author])

setISBN(b, isbn) ==
    IF isbn # Empty /\ Len(isbn) # 13 THEN Throw(InvalidArgument, b)
    ELSE Done([b EXCEPT !.m_isbn = isbn])

setPageCount(b, pageCount) ==
    IF pageCount < 0 THEN Throw(InvalidArgument, b)
    ELSE Done([b EXCEPT !.m_pageCount = pageCount,
                        !.m_currentPage =
                            IF b.m_currentPage > pageCount THEN pageCount
                            ELSE b.m_currentPage])

\* setCurrentPage stamping the start date on every call past page 0
setCurrentPage_restamp(b, currentPage, now) ==
    IF currentPage < 0 THEN Throw(InvalidArgument, b)
    ELSE IF currentPage > b.m_pageCount /\ b.m_pageCount > 0
         THEN Throw(InvalidArgument, b)
    ELSE Done([b EXCEPT
            !.m_currentPage = currentPage,
            !.m_startDate =
                IF currentPage > 0 THEN {now} ELSE b.m_startDate,
            !.m_completionDate =
                IF currentPage = b.m_pageCount /\ b.m_pageCount > 0
                   /\ b.m_completionDate = {} THEN {now}
                ELSE b.m_completionDate])

setCurrentPage(b, currentPage, now) ==
    IF currentPage < 0 THEN Throw(InvalidArgument, b)
    ELSE IF currentPage > b.m_pageCount /\ b.m_pageCount > 0
         THEN Throw(InvalidArgument, b)
    ELSE Done([b EXCEPT
            !.m_currentPage = currentPage,
            !.m_startDate =
                IF currentPage > 0 /\ b.m_startDate = {} THEN {now}
                ELSE b.m_startDate,
            !.m_completionDate =
                IF currentPage = b.m_pageCount /\ b.m_pageCount > 0
                   /\ b.m_completionDate = {} THEN {now}
                ELSE b.m_completionDate])

setStartDate(b, startDate) == Done([b EXCEPT !.m_startDate = {startDate}])

setCompletionDate(b, completionDate) ==
    Done([b EXCEPT !.m_completionDate = {completionDate}])

setGenre(b, genre) == Done([b EXCEPT !.m_genre = genre])

setPublisher(b, publisher) == Done([b EXCEPT !.m_publisher = publisher])

setYearPublished(b, year) ==
    IF year < 0 \/ year > 9999 THEN Throw(InvalidArgument, b)
    ELSE Done([b EXCEPT !.m_yearPublished = year])

setNotes(b, notes) == Done([b EXCEPT !.m_notes = notes])

setReview(b, review) == Done([b EXCEPT !.m_review = review])

\* setRating storing whatever it is given
setRating_unchecked(b, rating) == Done([b EXCEPT !.m_rating = rating])

setRating(b, rating) ==
    IF rating < 0 \/ rating > 5 THEN Throw(InvalidArgument, b)
    ELSE Done([b EXCEPT !.m_rating = rating])

setCoverPath(b, path) == Done([b EXCEPT !.m_coverPath = path])

setDateAdded(b, date) == Done([b EXCEPT !.m_dateAdded = date])

setStatus(b, status) ==
    IF status < 0 \/ status > 4 THEN Throw(InvalidArgument, b)
    ELSE Done([b EXCEPT !.m_status = status])

isCompleted(b) ==
    (b.m_pageCount > 0 /\ b.m_currentPage = b.m_pageCount)
    \/ b.m_completionDate # {}

\* markAsCompleted without the test of the page count
markAsCompleted_unchecked(b, now) ==
    Done([b EXCEPT !.m_currentPage = b.m_pageCount,
                   !.m_completionDate = {now}])

markAsCompleted(b, now) ==
    IF b.m_pageCount <= 0 THEN Throw(RuntimeError, b)
    ELSE Done([b EXCEPT !.m_currentPage = b.m_pageCount,
                        !.m_completionDate = {now}])

resetProgress(b) ==
    Done([b EXCEPT !.m_currentPage = 0, !.m_startDate = {},
                   !.m_completionDate = {}])

\* intToBookStatus(code) of book_status.h, with ToRead = 0
intToBookStatus(code) == IF code >= 0 /\ code <= 4 THEN code ELSE 0

\* ------------------------------------------------------ the books table
\* values bound by addBook to the 16 placeholders of its INSERT statement
bindInsert(b) ==
    [ title |-> c_str(b.m_title), author |-> c_str(b.m_author),
      isbn |-> c_str(b.m_isbn),
      page_count |-> b.m_pageCount, current_page |-> b.m_currentPage,
      start_date |-> {to_time_t(t) : t \in b.m_startDate},
      completion_date |-> {to_time_t(t) : t \in b.m_completionDate},
      genre |-> c_str(b.m_genre), publisher |-> c_str(b.m_publisher),
      year_published |-> b.m_yearPublished,
      notes |-> c_str(b.m_notes), review |-> c_str(b.m_review),
      rating |-> b.m_rating, cover_path |-> c_str(b.m_coverPath),
      date_added |-> to_time_t(b.m_dateAdded), status |-> b.m_status ]

\* values bound by updateBook to the 16 SET placeholders of its UPDATE
bindUpdate(b) ==
    [ title |-> c_str(b.m_title), author |-> c_str(b.m_author),
      isbn |-> c_str(b.m_isbn),
      page_count |-> b.m_pageCount, current_page |-> b.m_currentPage,
      start_date |-> {to_time_t(t) : t \in b.m_startDate},
      completion_date |-> {to_time_t(t) : t \in b.m_completionDate},
      genre |-> c_str(b.m_genre), publisher |-> c_str(b.m_publisher),
      year_published |-> b.m_yearPublished,
      notes |-> c_str(b.m_notes), review |-> c_str(b.m_review),
      rating |-> b.m_rating, cover_path |-> c_str(b.m_coverPath),
      date_added |-> to_time_t(b.m_dateAdded), status |-> b.m_status ]

\* Database::bookFromStatement on the row with rowid id; now is the clock
\* read by Book() and by setCurrentPage
bookFromStatement(id, row, now) ==
    LET c0  == Done(BookDefault(now))
        c1  == Then(c0,  LAMBDA b : setId(b, id))
        c2  == Then(c1,  LAMBDA b : setTitle(b, row.title))
        c3  == Then(c2,  LAMBDA b : setAuthor(b, row.author))
        c4  == Then(c3,  LAMBDA b : setISBN(b, row.isbn))
        c5  == Then(c4,  LAMBDA b : setPageCount(b, row.page_count))
        c6  == Then(c5,  LAMBDA b : setCurrentPage(b, row.current_page, now))
        c7  == Then(c6,  LAMBDA b :
                   IF row.start_date # {}
                   THEN setStartDate(b,
                            from_time_t(CHOOSE s \in row.start_date : TRUE))
                   ELSE Done(b))
        c8  == Then(c7,  LAMBDA b :
                   IF row.completion_date # {}
                   THEN setCompletionDate(b,
                            from_time_t(CHOOSE s \in row.completion_date : TRUE))
                   ELSE Done(b))
        c9  == Then(c8,  LAMBDA b : setGenre(b, row.genre))
        c10 == Then(c9,  LAMBDA b : setPublisher(b, row.publisher))
        c11 == Then(c10, LAMBDA b : setYearPublished(b, row.year_published))
        c12 == Then(c11, LAMBDA b : setNotes(b, row.notes))
        c13 == Then(c12, LAMBDA b : setReview(b, row.review))
        c14 == Then(c13, LAMBDA b : setRating(b, row.rating))
        c15 == Then(c14, LAMBDA b : setCoverPath(b, row.cover_path))
        c16 == Then(c15, LAMBDA b : setDateAdded(b, from_time_t(row.date_added)))
    IN  Then(c16, LAMBDA b : setStatus(b, row.status))

\* ----------------------------------------------------------- SQL helpers
\* LOWER(): folds the 26 ASCII capitals only
LowerChar(c) == IF c = "A" THEN "a" ELSE c
LOWER(s) == [i \in 1..Len(s) |-> LowerChar(s[i])]

\* x LIKE p: % matches any run of characters, _ any one character
RECURSIVE LIKE(_, _)
LIKE(p, s) ==
    IF p = <<>> THEN s = <<>>
    ELSE IF Head(p) = "%"
         THEN LIKE(Tail(p), s) \/ (s # <<>> /\ LIKE(p, Tail(s)))
    ELSE /\ s # <<>>
         /\ (Head(p) = "_" \/ LowerChar(Head(p)) = LowerChar(Head(s)))
         /\ LIKE(Tail(p), Tail(s))

\* byte values, for the BINARY collation of ORDER BY title
Code(c) ==
    CASE c = NUL -> 0 [] c = "%" -> 37 [] c = "7" -> 55 [] c = "8" -> 56
      [] c = "9" -> 57 [] c = "A" -> 65 [] c = "_" -> 95 [] c = "a" -> 97
      [] c = "b" -> 98

RECURSIVE TextLeq(_, _)
TextLeq(s, t) ==
    IF s = <<>> THEN TRUE
    ELSE IF t = <<>> THEN FALSE
    ELSE IF Code(Head(s)) # Code(Head(t)) THEN Code(Head(s)) < Code(Head(t))
    ELSE TextLeq(Tail(s), Tail(t))

EmptyRows == [i \in {} |-> 0]

\* INSERT INTO books (...) VALUES (...), the new row getting rowid id
InsertRow(table, id, row) ==
    [i \in DOMAIN table \cup {id} |-> IF i = id THEN row ELSE table[i]]

\* INSERT OR REPLACE in place of UPDATE
UpdateWhereId_upsert(table, id, row) == InsertRow(table, id, row)

\* UPDATE books SET ... WHERE id = ?
UpdateWhereId(table, id, row) ==
    IF id \in DOMAIN table THEN [table EXCEPT ![id] = row] ELSE table

\* DELETE without its WHERE clause
DeleteWhereId_all(table, id) == EmptyRows

\* DELETE FROM books WHERE id = ?
DeleteWhereId(table, id) == [i \in DOMAIN table \ {id} |-> table[i]]

MaxOf(S) == CHOOSE m \in S : \A x \in S : x <= m

\* INTEGER PRIMARY KEY without AUTOINCREMENT: one more than the largest
\* rowid now in the table
NextRowid_noAutoincrement(table, sequence) == MaxOf(DOMAIN table \cup {0}) + 1

\* rowid given to a new row of a table declared INTEGER PRIMARY KEY
\* AUTOINCREMENT: one more than the largest rowid the table ever held
NextRowid(table, sequence) == MaxOf(DOMAIN table \cup {sequence}) + 1

\* the ids of a set, as the sequence in ascending id order
RECURSIVE OrderById(_)
OrderById(S) ==
    IF S = {} THEN <<>>
    ELSE LET m == CHOOSE x \in S : \A y \in S : x <= y
         IN  <<m>> \o OrderById(S \ {m})

\* the arrangements of a set of rowids that ORDER BY title allows
OrderByTitle(table, S) ==
    { o \in [1..Cardinality(S) -> S] :
        /\ \A i, j \in DOMAIN o : i # j => o[i] # o[j]
        /\ \A i, j \in DOMAIN o :
              i < j => TextLeq(table[o[i]].title, table[o[j]].title) }

\* WHERE clause of searchBooks for the bound pattern
SearchWhere(row, pattern) ==
    LIKE(LOWER(pattern), LOWER(row.title)) \/ LIKE(LOWER(pattern), LOWER(row.author))

\* the pattern searchBooks binds for a query
searchPattern(query) == c_str(<<"%">> \o query \o <<"%">>)

\* convert the rows with the rowids of the sequence ids, in that order;
\* the first conversion that raises ends the loop
RECURSIVE StepRows(_, _, _, _)
StepRows(table, ids, now, acc) ==
    IF ids = <<>> THEN [exc |-> NoExc, books |-> acc]
    ELSE LET r == bookFromStatement(Head(ids), table[Head(ids)], now)
         IN  IF r.exc # NoExc THEN [exc |-> r.exc, books |-> <<>>]
             ELSE StepRows(table, Tail(ids), now, Append(acc, r.book))

\* ----------------------------------------------------------------- state
VARIABLES
    m_db,       \* Database::m_db: TRUE while it holds a connection handle
    m_isOpen,   \* Database::m_isOpen
    rows,       \* table books as the connection sees it: rowid -> row
    seq,        \* sqlite_sequence entry of books (AUTOINCREMENT counter)
    inTx,       \* the connection has left autocommit mode (BEGIN executed)
    journal,    \* what ROLLBACK restores: table and counter as of BEGIN
    changes,    \* sqlite3_changes() of the connection
    call,       \* the last call of the caller: arguments and outcome
    txBase,     \* observer: table and live ids when beginTransaction returned
    txWrote,    \* observer: a write succeeded inside the current/last transaction
    liveIds,    \* observer: ids returned by addBook and not rolled back
    everIds,    \* observer: ids ever returned by addBook
    conn,       \* the sqlite3 connection exists: opened, and no sqlite3_close
                \* on it has succeeded
    unfinalized,\* a statement prepared on the connection was never finalized
    thisBook,   \* a Book object in the hands of the caller
    bookCall,   \* the last member function called on thisBook
    window,     \* the MainWindow: its members, its widgets, its last slot
    thisSession,\* a ReadingSession object in the hands of the caller
    sessionCall \* the last member function called on thisSession

vars == <<m_db, m_isOpen, rows, seq, inTx, journal, changes, call,
          txBase, txWrote, liveIds, everIds, conn, unfinalized,
          thisBook, bookCall, window, thisSession, sessionCall>>

engine == <<rows, seq, inTx, journal, changes>>
handle == <<m_db, m_isOpen>>
observers == <<txBase, txWrote, liveIds, everIds>>
connection == <<conn, unfinalized>>
caller == <<thisBook, bookCall, window, thisSession, sessionCall>>

NoJournal == [rows |-> EmptyRows, seq |-> 0]

\* the record of one call; books passed and returned are sequences of
\* length at most one so that every call has the same shape
\* fault: the engine was made to fail the statement (I/O error, disk full)
Call(op, fault, bookIn, bookOut, id, query, exc, retId, retOk, retBooks) ==
    [ op |-> op, fault |-> fault, bookIn |-> bookIn, bookOut |-> bookOut,
      id |-> id, query |-> query, exc |-> exc, retId |-> retId,
      retOk |-> retOk, retBooks |-> retBooks ]

\* the record of one member function call on thisBook: its integer argument
\* (0 when it has none), its string arguments (text, none here), the clock it
\* read, the object before the call
BookCall(op, arg, now, before, exc) ==
    [op |-> op, arg |-> arg, text |-> <<>>, now |-> now, before |-> before,
     exc |-> exc]

\* the caller holds a default-constructed Book that no action of the
\* database specifications touches
\* a program without a MainWindow (the console program of main.cpp).  slot
\* is the slot of the window that ran last: the id of the selected row, the
\* number and the text the user entered, and whether the slot gave up
NoWindow ==
    [ m_allBooks |-> <<>>, m_filteredBooks |-> <<>>, m_bookTable |-> <<>>,
      m_searchBox |-> <<>>, m_filterCombo |-> 0,
      slot |-> [name |-> "none", id |-> 0, arg |-> 0, text |-> <<>>,
                failed |-> FALSE] ]

\* ReadingSession::ReadingSession()
SessionDefault(now) ==
    [ m_id |-> 0, m_bookId |-> 0, m_sessionDate |-> now,
      m_durationMinutes |-> 0, m_pagesRead |-> 0, m_startPage |-> 0,
      m_endPage |-> 0, m_notes |-> Empty ]

\* the record of one member function call on thisSession: its integer
\* arguments, the object before the call
SessionCall(op, args, before, exc) ==
    [op |-> op, args |-> args, before |-> before, exc |-> exc]

\* the caller holds a default-constructed ReadingSession that no action of
\* the other specifications touches
NoSessionCall ==
    /\ thisSession = SessionDefault(0)
    /\ sessionCall = SessionCall("ReadingSession", <<>>, SessionDefault(0), NoExc)

NoBookCall ==
    /\ NoSessionCall
    /\ window = NoWindow
    /\ thisBook = BookDefault(0)
    /\ bookCall = BookCall("Book", 0, 0, BookDefault(0), NoExc)

\* Database::Database(dbPath) on a file whose books table holds `table` with
\* AUTOINCREMENT counter `sequence`.  openFails: sqlite3_open does not return
\* SQLITE_OK; the constructor closes the handle and throws.  schemaFails: a
\* statement of initializeSchema fails; executeSQL throws out of the
\* constructor with m_isOpen already set, and as the object was never
\* constructed ~Database() does not run.  The members keep the values they
\* had at the throw.
Database(table, sequence, openFails, schemaFails) ==
    /\ rows = table
    /\ seq = sequence
    /\ inTx = FALSE
    /\ journal = NoJournal
    /\ changes = 0
    /\ unfinalized = FALSE
    /\ txBase = [rows |-> table, live |-> {}]
    /\ txWrote = FALSE
    /\ liveIds = {}
    /\ everIds = {}
    /\ m_db = ~openFails
    /\ m_isOpen = ~openFails
    /\ conn = ~openFails
    /\ call = Call("Database", openFails \/ schemaFails, <<>>, <<>>, 0, <<>>,
                   IF openFails \/ schemaFails THEN RuntimeError ELSE NoExc,
                   0, FALSE, <<>>)

\* a Database constructed on a new file
Init ==
    /\ Database(EmptyRows, 0, FALSE, FALSE)
    /\ NoBookCall

\* the constructor returned, and the destructor has not run
Constructed == ~(call.op = "Database" /\ call.exc # NoExc)
Alive == Constructed /\ call.op # "~Database"

\* ------------------------------------------------------------ operations
\* sqlite3_prepare_v2 accepting a null handle
PrepareFails_never == FALSE

\* sqlite3_prepare_v2 on the handle: SQLITE_MISUSE once the handle is null
PrepareFails == ~m_db

\* id written back before the result of sqlite3_step is looked at
writeBack_early(book, newId, inserted) == setId(book, newId)

\* addBook's write-back of the new rowid into the caller's Book
writeBack(book, newId, inserted) ==
    IF inserted THEN setId(book, newId) ELSE Done(book)

\* Database::addBook(book); stepFails: sqlite3_step does not return SQLITE_DONE
addBook(book, stepFails) ==
    /\ seq < MaxId
    /\ IF PrepareFails \/ stepFails
       THEN /\ call' = Call("addBook", stepFails, <<book>>,
                            <<writeBack(book, NextRowid(rows, seq), FALSE).book>>,
                            0, <<>>, RuntimeError, 0, FALSE, <<>>)
            /\ UNCHANGED <<engine, handle, connection, caller, observers>>
       ELSE LET newId == NextRowid(rows, seq)
                w == writeBack(book, newId, TRUE)
            IN  /\ rows' = InsertRow(rows, newId, bindInsert(book))
                /\ seq' = newId
                /\ changes' = 1
                /\ call' = Call("addBook", stepFails, <<book>>, <<w.book>>,
                                0, <<>>, w.exc, newId, FALSE, <<>>)
                /\ liveIds' = liveIds \cup {newId}
                /\ everIds' = everIds \cup {newId}
                /\ txWrote' = (txWrote \/ inTx)
                /\ UNCHANGED <<inTx, journal, handle, connection, caller, txBase>>

\* Database::getBook(id)
getBook(id, stepFails, now) ==
    /\ UNCHANGED <<engine, handle, observers, conn, caller>>
    /\ IF PrepareFails \/ stepFails
       THEN call' = Call("getBook", stepFails, <<>>, <<>>, id, <<>>, RuntimeError,
                         0, FALSE, <<>>)
       ELSE IF id \in DOMAIN rows
       THEN LET r == bookFromStatement(id, rows[id], now)
            IN  call' = Call("getBook", stepFails, <<>>, <<>>, id, <<>>, r.exc, 0, FALSE,
                             IF r.exc = NoExc THEN <<r.book>> ELSE <<>>)
       ELSE call' = Call("getBook", stepFails, <<>>, <<>>, id, <<>>, NoExc, 0, FALSE, <<>>)
    \* the conversion raised between sqlite3_step and sqlite3_finalize
    /\ unfinalized' = (unfinalized \/ call'.exc = InvalidArgument)

\* Database::getAllBooks()
getAllBooks(stepFails, now) ==
    /\ UNCHANGED <<engine, handle, observers, conn, caller>>
    /\ IF PrepareFails \/ stepFails
       THEN call' = Call("getAllBooks", stepFails, <<>>, <<>>, 0, <<>>, RuntimeError,
                         0, FALSE, <<>>)
       ELSE LET r == StepRows(rows, OrderById(DOMAIN rows), now, <<>>)
            IN  call' = Call("getAllBooks", stepFails, <<>>, <<>>, 0, <<>>, r.exc,
                             0, FALSE, r.books)
    \* the conversion raised between sqlite3_step and sqlite3_finalize
    /\ unfinalized' = (unfinalized \/ call'.exc = InvalidArgument)

\* Database::searchBooks(query)
searchBooks(query, stepFails, now) ==
    /\ UNCHANGED <<engine, handle, observers, conn, caller>>
    /\ IF PrepareFails \/ stepFails
       THEN call' = Call("searchBooks", stepFails, <<>>, <<>>, 0, query, RuntimeError,
                         0, FALSE, <<>>)
       ELSE LET hits == {i \in DOMAIN rows :
                            SearchWhere(rows[i], searchPattern(query))}
            IN  \E o \in OrderByTitle(rows, hits) :
                    LET r == StepRows(rows, o, now, <<>>)
                    IN  call' = Call("searchBooks", stepFails, <<>>, <<>>, 0, query,
                                     r.exc, 0, FALSE, r.books)
    \* the conversion raised between sqlite3_step and sqlite3_finalize
    /\ unfinalized' = (unfinalized \/ call'.exc = InvalidArgument)

\* updateBook sending the UPDATE whatever the id of the Book is
updateBook_unchecked(book, stepFails) ==
    IF PrepareFails \/ stepFails
    THEN /\ call' = Call("updateBook", stepFails, <<book>>, <<book>>, 0, <<>>,
                         RuntimeError, 0, FALSE, <<>>)
         /\ UNCHANGED <<engine, handle, connection, caller, observers>>
    ELSE LET hit == book.m_id \in DOMAIN rows
             rowsChanged == IF hit THEN 1 ELSE 0
         IN  /\ rows' = UpdateWhereId(rows, book.m_id, bindUpdate(book))
             /\ changes' = rowsChanged
             /\ call' = Call("updateBook", stepFails, <<book>>, <<book>>, 0, <<>>, NoExc,
                             0, rowsChanged > 0, <<>>)
             /\ txWrote' = (txWrote \/ (inTx /\ hit))
             /\ UNCHANGED <<seq, inTx, journal, handle, connection, caller, txBase, liveIds, everIds>>

\* Database::updateBook(book)
updateBook(book, stepFails) ==
    IF book.m_id <= 0
    THEN /\ call' = Call("updateBook", stepFails, <<book>>, <<book>>, 0, <<>>,
                         InvalidArgument, 0, FALSE, <<>>)
         /\ UNCHANGED <<engine, handle, connection, caller, observers>>
    ELSE IF PrepareFails \/ stepFails
    THEN /\ call' = Call("updateBook", stepFails, <<book>>, <<book>>, 0, <<>>,
                         RuntimeError, 0, FALSE, <<>>)
         /\ UNCHANGED <<engine, handle, connection, caller, observers>>
    ELSE LET hit == book.m_id \in DOMAIN rows
             rowsChanged == IF hit THEN 1 ELSE 0
         IN  /\ rows' = UpdateWhereId(rows, book.m_id, bindUpdate(book))
             /\ changes' = rowsChanged
             /\ call' = Call("updateBook", stepFails, <<book>>, <<book>>, 0, <<>>, NoExc,
                             0, rowsChanged > 0, <<>>)
             /\ txWrote' = (txWrote \/ (inTx /\ hit))
             /\ UNCHANGED <<seq, inTx, journal, handle, connection, caller, txBase, liveIds, everIds>>

\* Database::deleteBook(id)
deleteBook(id, stepFails) ==
    IF PrepareFails \/ stepFails
    THEN /\ call' = Call("deleteBook", stepFails, <<>>, <<>>, id, <<>>, RuntimeError,
                         0, FALSE, <<>>)
         /\ UNCHANGED <<engine, handle, connection, caller, observers>>
    ELSE LET rowsDeleted == IF id \in DOMAIN rows THEN 1 ELSE 0
         IN  /\ rows' = DeleteWhereId(rows, id)
             /\ changes' = rowsDeleted
             /\ call' = Call("deleteBook", stepFails, <<>>, <<>>, id, <<>>, NoExc,
                             0, rowsDeleted > 0, <<>>)
             /\ txWrote' = (txWrote \/ (inTx /\ rowsDeleted > 0))
             /\ UNCHANGED <<seq, inTx, journal, handle, connection, caller, txBase, liveIds, everIds>>

\* the statements the transaction methods hand to executeSQL
BeginSQL == "BEGIN TRANSACTION;"
CommitSQL == "COMMIT;"

\* rollbackTransaction sending the statement of commitTransaction
RollbackSQL_commit == "COMMIT;"

RollbackSQL == "ROLLBACK;"

\* executeSQL on an engine that lets BEGIN start a transaction inside a
\* transaction
executeSQL_nested(sql) ==
    LET same == [rows |-> rows, seq |-> seq, inTx |-> inTx, journal |-> journal]
        fail == [exc |-> RuntimeError] @@ same
    IN  IF ~m_db THEN fail
        ELSE IF sql = "BEGIN TRANSACTION;"
        THEN [exc |-> NoExc, rows |-> rows, seq |-> seq, inTx |-> TRUE,
              journal |-> [rows |-> rows, seq |-> seq]]
        ELSE IF sql = "COMMIT;"
        THEN IF ~inTx THEN fail
             ELSE [exc |-> NoExc, rows |-> rows, seq |-> seq, inTx |-> FALSE,
                   journal |-> NoJournal]
        ELSE IF sql = "ROLLBACK;"
        THEN IF ~inTx THEN fail
             ELSE [exc |-> NoExc, rows |-> journal.rows, seq |-> journal.seq,
                   inTx |-> FALSE, journal |-> NoJournal]
        ELSE fail

\* Database::executeSQL(sql): sqlite3_exec on the handle; the outcome is the
\* exception raised and the engine state left behind
executeSQL(sql) ==
    LET same == [rows |-> rows, seq |-> seq, inTx |-> inTx, journal |-> journal]
        fail == [exc |-> RuntimeError] @@ same
    IN  IF ~m_db THEN fail
        ELSE IF sql = "BEGIN TRANSACTION;"
        THEN IF inTx THEN fail
             ELSE [exc |-> NoExc, rows |-> rows, seq |-> seq, inTx |-> TRUE,
                   journal |-> [rows |-> rows, seq |-> seq]]
        ELSE IF sql = "COMMIT;"
        THEN IF ~inTx THEN fail
             ELSE [exc |-> NoExc, rows |-> rows, seq |-> seq, inTx |-> FALSE,
                   journal |-> NoJournal]
        ELSE IF sql = "ROLLBACK;"
        THEN IF ~inTx THEN fail
             ELSE [exc |-> NoExc, rows |-> journal.rows, seq |-> journal.seq,
                   inTx |-> FALSE, journal |-> NoJournal]
        ELSE fail

Executed(r) ==
    /\ rows' = r.rows
    /\ seq' = r.seq
    /\ inTx' = r.inTx
    /\ journal' = r.journal
    /\ UNCHANGED <<changes, handle, connection, caller, everIds>>

\* Database::beginTransaction()
beginTransaction ==
    LET r == executeSQL(BeginSQL)
    IN  /\ Executed(r)
        /\ call' = Call("beginTransaction", FALSE, <<>>, <<>>, 0, <<>>, r.exc,
                        0, FALSE, <<>>)
        /\ IF r.exc = NoExc
           THEN /\ txBase' = [rows |-> rows, live |-> liveIds]
                /\ txWrote' = FALSE
           ELSE UNCHANGED <<txBase, txWrote>>
        /\ UNCHANGED liveIds

\* Database::commitTransaction()
commitTransaction ==
    LET r == executeSQL(CommitSQL)
    IN  /\ Executed(r)
        /\ call' = Call("commitTransaction", FALSE, <<>>, <<>>, 0, <<>>, r.exc,
                        0, FALSE, <<>>)
        /\ UNCHANGED <<txBase, txWrote, liveIds>>

\* Database::rollbackTransaction()
rollbackTransaction ==
    LET r == executeSQL(RollbackSQL)
    IN  /\ Executed(r)
        /\ call' = Call("rollbackTransaction", FALSE, <<>>, <<>>, 0, <<>>, r.exc,
                        0, FALSE, <<>>)
        /\ liveIds' = IF r.exc = NoExc THEN txBase.live ELSE liveIds
        /\ UNCHANGED <<txBase, txWrote>>

\* Database::close(), also run by ~Database(): sqlite3_close rolls an open
\* transaction back and frees the connection, or returns SQLITE_BUSY and
\* leaves the connection as it is while a statement is not finalized; the
\* members are reset whatever it returned
Close(op) ==
    /\ call' = Call(op, FALSE, <<>>, <<>>, 0, <<>>, NoExc, 0, FALSE, <<>>)
    /\ UNCHANGED <<unfinalized, caller>>
    /\ IF m_db
       THEN /\ m_db' = FALSE
            /\ m_isOpen' = FALSE
            /\ IF unfinalized
               THEN UNCHANGED <<engine, observers, conn>>
               ELSE /\ rows' = IF inTx THEN journal.rows ELSE rows
                    /\ seq' = IF inTx THEN journal.seq ELSE seq
                    /\ inTx' = FALSE
                    /\ journal' = NoJournal
                    /\ conn' = FALSE
                    /\ liveIds' = IF inTx THEN txBase.live ELSE liveIds
                    /\ UNCHANGED <<changes, txBase, txWrote, everIds>>
       ELSE UNCHANGED <<engine, handle, observers, conn>>

close == Close("close")

\* Database::~Database(): close(), after which the object is gone
destructor == Close("~Database")

\* Database::isOpen()
isOpen == m_isOpen /\ m_db

\* ---------------------------------------------------------------- inputs
\* Book("Ab", "a", isbn, 2), built at tick 1
PlainBook == BookParam(<<"A", "b">>, <<"a">>, Isbn13, 2, 1).book

\* Book("b", "b_", "", 2) at tick 2, every optional field set, page 1 of 2
ProgressBook ==
    LET c0 == BookParam(<<"b">>, <<"b", "_">>, Empty, 2, 2)
        c1 == Then(c0, LAMBDA b : setGenre(b, <<"a">>))
        c2 == Then(c1, LAMBDA b : setPublisher(b, <<"b">>))
        c3 == Then(c2, LAMBDA b : setYearPublished(b, 1965))
        c4 == Then(c3, LAMBDA b : setNotes(b, <<"a", "b">>))
        c5 == Then(c4, LAMBDA b : setReview(b, <<"b", "a">>))
        c6 == Then(c5, LAMBDA b : setRating(b, 5))
        c7 == Then(c6, LAMBDA b : setCoverPath(b, <<"a", "a">>))
        c8 == Then(c7, LAMBDA b : setStatus(b, 1))
    IN  Then(c8, LAMBDA b : setCurrentPage(b, 1, 2)).book

\* Book("ab", "A", "", 1) at tick 0, then markAsCompleted() at tick 1
CompletedBook ==
    Then(BookParam(<<"a", "b">>, <<"A">>, Empty, 1, 0),
         LAMBDA b : markAsCompleted(b, 1)).book

\* Book() at tick 0
BlankBook == BookDefault(0)

ParamBooks == {PlainBook, ProgressBook, CompletedBook}
InputBooks == ParamBooks \cup {BlankBook}
TxBooks == {PlainBook, CompletedBook}

Queries == UNION {[1..n -> QueryChars] : n \in 0..MaxQueryLen}

\* the clock is read only by a call that gets as far as converting a row
ClockAt(stepFails) == IF stepFails THEN {0} ELSE Times

\* ------------------------------------------------------- specifications
\* every operation outside transactions, search included, with the full input
\* sets
Next ==
    \/ \E b \in InputBooks, f \in BOOLEAN : addBook(b, f)
    \/ \E i \in Ids, f \in BOOLEAN : \E t \in ClockAt(f) : getBook(i, f, t)
    \/ \E f \in BOOLEAN : \E t \in ClockAt(f) : getAllBooks(f, t)
    \/ \E q \in Queries, f \in BOOLEAN : \E t \in ClockAt(f) : searchBooks(q, f, t)
    \/ \E b \in InputBooks, i \in Ids, f \in BOOLEAN :
           updateBook(setId(b, i).book, f)
    \/ \E i \in Ids, f \in BOOLEAN : deleteBook(i, f)
    \/ close

Spec == Init /\ [][Next]_vars

\* create, read, update and delete with the full input sets
NextCrud ==
    \/ \E b \in InputBooks, f \in BOOLEAN : addBook(b, f)
    \/ \E i \in Ids, f \in BOOLEAN : \E t \in ClockAt(f) : getBook(i, f, t)
    \/ \E f \in BOOLEAN : \E t \in ClockAt(f) : getAllBooks(f, t)
    \/ \E b \in InputBooks, i \in Ids, f \in BOOLEAN :
           updateBook(setId(b, i).book, f)
    \/ \E i \in Ids, f \in BOOLEAN : deleteBook(i, f)
    \/ close

SpecCrud == Init /\ [][NextCrud]_vars

\* the life of a Database object: the outcomes of its constructor, every
\* operation, close and the destructor, over two Books and one query, on an
\* engine that fails no statement and with the clock at tick 0
LifeBooks == {PlainBook, BlankBook}
LifeQueries == {<<"a">>}

InitLife ==
    /\ \E openFails, schemaFails \in BOOLEAN :
           Database(EmptyRows, 0, openFails, schemaFails)
    /\ NoBookCall

NextLife ==
    \/ Alive /\ \E b \in LifeBooks : addBook(b, FALSE)
    \/ Alive /\ \E i \in Ids : getBook(i, FALSE, 0)
    \/ Alive /\ getAllBooks(FALSE, 0)
    \/ Alive /\ \E q \in LifeQueries : searchBooks(q, FALSE, 0)
    \/ Alive /\ \E i \in Ids : updateBook(setId(PlainBook, i).book, FALSE)
    \/ Alive /\ \E i \in Ids : deleteBook(i, FALSE)
    \/ Alive /\ beginTransaction
    \/ Alive /\ commitTransaction
    \/ Alive /\ rollbackTransaction
    \/ Alive /\ close
    \/ Alive /\ destructor

SpecLife == InitLife /\ [][NextLife]_vars

\* a Database constructed on a file that holds one row already: a row as
\* addBook writes it, with any integer the status column accepts
StoredStatusCodes == -1..5
StoredRows ==
    {[bindInsert(b) EXCEPT !.status = c] : b \in ParamBooks, c \in StoredStatusCodes}

InitStored ==
    /\ \E r \in StoredRows : Database(InsertRow(EmptyRows, 1, r), 1, FALSE, FALSE)
    /\ NoBookCall

NextStored ==
    \/ \E i \in Ids, f \in BOOLEAN : \E t \in ClockAt(f) : getBook(i, f, t)
    \/ \E f \in BOOLEAN : \E t \in ClockAt(f) : getAllBooks(f, t)
    \/ \E i \in Ids, f \in BOOLEAN : deleteBook(i, f)
    \/ close

SpecStored == InitStored /\ [][NextStored]_vars

\* ------------------------------------------------- calls on a Book object
database == <<engine, handle, connection, observers, call>>

\* a member function of thisBook has run with outcome r
Called(op, arg, now, r) ==
    /\ thisBook' = r.book
    /\ bookCall' = BookCall(op, arg, now, thisBook, r.exc)
    /\ UNCHANGED <<database, window, thisSession, sessionCall>>

\* a Book whose string setters write the row with its id as well
CalledText_writeThrough(op, arg, text, now, r) ==
    /\ thisBook' = r.book
    /\ bookCall' = [BookCall(op, arg, now, thisBook, r.exc) EXCEPT !.text = text]
    /\ rows' = UpdateWhereId(rows, r.book.m_id, bindUpdate(r.book))
    /\ UNCHANGED <<seq, inTx, journal, changes, handle, connection, observers,
                   call, window, thisSession, sessionCall>>

\* the same for a member function with string arguments
CalledText(op, arg, text, now, r) ==
    /\ thisBook' = r.book
    /\ bookCall' = [BookCall(op, arg, now, thisBook, r.exc) EXCEPT !.text = text]
    /\ UNCHANGED <<database, window, thisSession, sessionCall>>

\* Book b(title, author, isbn, pageCount) in place of thisBook; when the
\* constructor throws there is no new object and thisBook stays
Book_Book(title, author, isbn, pageCount, now) ==
    LET r == BookParam(title, author, isbn, pageCount, now)
    IN  CalledText("Book", pageCount, <<title, author, isbn>>, now,
                   IF r.exc = NoExc THEN r ELSE Throw(r.exc, thisBook))

Book_setId(id) == Called("setId", id, 0, setId(thisBook, id))

Book_setTitle(title) ==
    CalledText("setTitle", 0, <<title>>, 0, setTitle(thisBook, title))

Book_setAuthor(author) ==
    CalledText("setAuthor", 0, <<author>>, 0, setAuthor(thisBook, author))

Book_setISBN(isbn) ==
    CalledText("setISBN", 0, <<isbn>>, 0, setISBN(thisBook, isbn))

Book_setYearPublished(year) ==
    Called("setYearPublished", year, 0, setYearPublished(thisBook, year))

Book_setRating(rating) ==
    Called("setRating", rating, 0, setRating(thisBook, rating))

Book_setStatus(status) ==
    Called("setStatus", status, 0, setStatus(thisBook, status))

Book_setPageCount(pageCount) ==
    Called("setPageCount", pageCount, 0, setPageCount(thisBook, pageCount))

Book_setCurrentPage(currentPage, now) ==
    Called("setCurrentPage", currentPage, now,
           setCurrentPage(thisBook, currentPage, now))

Book_markAsCompleted(now) ==
    Called("markAsCompleted", 0, now, markAsCompleted(thisBook, now))

Book_resetProgress == Called("resetProgress", 0, 0, resetProgress(thisBook))

\* page arguments a caller passes, one below and one above the valid range
PageArgs == (-1)..(MaxPages + 1)

\* the Books either constructor returns
NewBooks ==
    {BookDefault(t) : t \in Times}
    \cup {BookParam(<<"A", "b">>, <<"a">>, Empty, n, t).book :
              n \in 0..MaxPages, t \in Times}

InitBook ==
    /\ Database(EmptyRows, 0, FALSE, FALSE)
    /\ NoSessionCall
    /\ window = NoWindow
    /\ \E b \in NewBooks :
           /\ thisBook = b
           /\ bookCall = BookCall("Book", b.m_pageCount, b.m_dateAdded, b, NoExc)

NextBook ==
    \/ \E n \in PageArgs : Book_setPageCount(n)
    \/ \E n \in PageArgs, t \in Times : Book_setCurrentPage(n, t)
    \/ \E t \in Times : Book_markAsCompleted(t)
    \/ Book_resetProgress

SpecBook == InitBook /\ [][NextBook]_vars

\* Book book = *db.getBook(id) or Book book = books[k]: thisBook becomes a
\* copy of the k-th Book the last call returned
CopyReturned(k) ==
    /\ k \in DOMAIN call.retBooks
    /\ thisBook' = call.retBooks[k]
    /\ bookCall' = BookCall("copy", k, 0, thisBook, NoExc)
    /\ UNCHANGED <<database, window, thisSession, sessionCall>>

\* thisBook was the Book passed to the last addBook or updateBook: it is
\* what the call left in its reference parameter
CopyPassed ==
    /\ call.bookOut # <<>>
    /\ thisBook' = call.bookOut[1]
    /\ bookCall' = BookCall("copy", 0, 0, thisBook, NoExc)
    /\ UNCHANGED <<database, window, thisSession, sessionCall>>

\* one Book variable of the caller against the store: written, read back,
\* changed through its setters and written again, on an engine that fails no
\* statement and with the clock at tick 0
NextCopy ==
    \/ addBook(PlainBook, FALSE)
    \/ addBook(thisBook, FALSE)
    \/ getBook(1, FALSE, 0)
    \/ getAllBooks(FALSE, 0)
    \/ \E q \in LifeQueries : searchBooks(q, FALSE, 0)
    \/ \E k \in 1..MaxId : CopyReturned(k)
    \/ CopyPassed
    \/ Book_setTitle(<<"b">>)
    \/ Book_setId(1)
    \/ updateBook(thisBook, FALSE)

SpecCopy == Init /\ [][NextCopy]_vars

\* arguments on both sides of every limit the constructor and the setters
\* test
TitleArgs == {Empty, <<"A", "b">>, <<"b">>}
AuthorArgs == {Empty, <<"a">>}
IsbnArgs == {[i \in 1..n |-> "9"] : n \in {0, 1, 13, 14}}
CountArgs == {-1, 0, MaxPages}
YearArgs == {-1, 0, 9999, 10000}
RatingArgs == {-1, 0, 5, 6}
StatusArgs == {-1, 0, 4, 5}

\* construction and the setters that validate their argument
NextFields ==
    \/ \E ti \in TitleArgs, au \in AuthorArgs, is \in IsbnArgs, n \in CountArgs :
           Book_Book(ti, au, is, n, 0)
    \/ \E ti \in TitleArgs : Book_setTitle(ti)
    \/ \E au \in AuthorArgs : Book_setAuthor(au)
    \/ \E is \in IsbnArgs : Book_setISBN(is)
    \/ \E n \in CountArgs : Book_setPageCount(n)
    \/ \E y \in YearArgs : Book_setYearPublished(y)
    \/ \E r \in RatingArgs : Book_setRating(r)
    \/ \E c \in StatusArgs : Book_setStatus(c)

SpecFields == InitBook /\ [][NextFields]_vars

\* the writes inside and outside transactions, read back by getAllBooks, with
\* the small input set
NextTx ==
    \/ \E b \in TxBooks, f \in BOOLEAN : addBook(b, f)
    \/ \E f \in BOOLEAN : \E t \in ClockAt(f) : getAllBooks(f, t)
    \/ \E b \in TxBooks, i \in Ids, f \in BOOLEAN :
           updateBook(setId(b, i).book, f)
    \/ \E i \in Ids, f \in BOOLEAN : deleteBook(i, f)
    \/ beginTransaction
    \/ commitTransaction
    \/ rollbackTransaction
    \/ close

SpecTx == Init /\ [][NextTx]_vars

\* ------------------------------------------------------------ MainWindow
\* the window's session runs in the second after every tick of Times: the
\* rows of its file were written in an earlier session
SessionClock == MaxTime + TicksPerSec

\* QString::trimmed(): the text without the spaces at its two ends
RECURSIVE trimmed(_)
trimmed(s) ==
    IF s # <<>> /\ Head(s) = " " THEN trimmed(Tail(s))
    ELSE IF s # <<>> /\ s[Len(s)] = " " THEN trimmed(SubSeq(s, 1, Len(s) - 1))
    ELSE s

\* QSpinBox::setValue on a box with range lo..hi
Clamp(v, lo, hi) == IF v < lo THEN lo ELSE IF v > hi THEN hi ELSE v

\* the window is on the screen: its constructor has run
Shown == window.slot.name # "none"

\* MainWindow::loadBooks(): the window after it, c being the outcome of its
\* getAllBooks(); when that raises, the members and the table stay
loadBooks(w, c) ==
    IF c.exc # NoExc THEN w
    ELSE [w EXCEPT !.m_allBooks = c.retBooks,
                   !.m_filteredBooks = c.retBooks,
                   !.m_bookTable = c.retBooks]

\* the body of onFilterChanged(index) before its loadBooks()
filterBooks(w, index) ==
    [w EXCEPT !.m_filteredBooks =
        IF index = 0 THEN w.m_allBooks
        ELSE SelectSeq(w.m_allBooks,
                       LAMBDA b : intToBookStatus(b.m_status) = index - 1)]

\* BookDialog::populateForm(book): the values the widgets take
populateForm(book) ==
    [ title |-> book.m_title, author |-> book.m_author, isbn |-> book.m_isbn,
      genre |-> book.m_genre, publisher |-> book.m_publisher,
      \* the year box ends at QDateTime::currentDateTime().date().year()
      year |-> Clamp(book.m_yearPublished, 0, 2025),
      pages |-> Clamp(book.m_pageCount, 1, 100000),
      currentPage |-> Clamp(book.m_currentPage, 0, book.m_pageCount),
      status |-> book.m_status, rating |-> Clamp(book.m_rating, 0, 5),
      notes |-> book.m_notes, review |-> book.m_review ]

\* the widgets of BookDialog(parent) after setupUI()
emptyForm ==
    [ title |-> Empty, author |-> Empty, isbn |-> Empty, genre |-> Empty,
      publisher |-> Empty, year |-> 0, pages |-> 300, currentPage |-> 0,
      status |-> 0, rating |-> 0, notes |-> Empty, review |-> Empty ]

\* BookDialog::validateForm(): the save button is enabled
validateForm(form) == trimmed(form.title) # Empty /\ trimmed(form.author) # Empty

\* BookDialog::onSave() accepts the dialog: the ISBN box is empty or holds
\* 13 digits once its hyphens and spaces are removed
onSave(form) ==
    LET isbn == trimmed(form.isbn)
        cleanIsbn == SelectSeq(isbn, LAMBDA ch : ch \notin {"-", " "})
    IN  isbn = Empty
        \/ /\ Len(cleanIsbn) = 13
           /\ \A i \in DOMAIN cleanIsbn :
                  cleanIsbn[i] \in {"0", "1", "2", "3", "4", "5", "6", "7", "8", "9"}

\* BookDialog::getBook() const
BookDialog_getBook(form, m_isEditMode, m_bookId, now) ==
    LET c0  == Done(BookDefault(now))
        c1  == Then(c0,  LAMBDA b : IF m_isEditMode THEN setId(b, m_bookId)
                                    ELSE Done(b))
        c2  == Then(c1,  LAMBDA b : setTitle(b, trimmed(form.title)))
        c3  == Then(c2,  LAMBDA b : setAuthor(b, trimmed(form.author)))
        c4  == Then(c3,  LAMBDA b : setISBN(b, trimmed(form.isbn)))
        c5  == Then(c4,  LAMBDA b : setGenre(b, trimmed(form.genre)))
        c6  == Then(c5,  LAMBDA b : setPublisher(b, trimmed(form.publisher)))
        c7  == Then(c6,  LAMBDA b : setYearPublished(b, form.year))
        c8  == Then(c7,  LAMBDA b : setPageCount(b, form.pages))
        c9  == Then(c8,  LAMBDA b : setCurrentPage(b, form.currentPage, now))
        c10 == Then(c9,  LAMBDA b : setStatus(b, form.status))
        c11 == Then(c10, LAMBDA b : setRating(b, form.rating))
        c12 == Then(c11, LAMBDA b : setNotes(b, form.notes))
    IN  Then(c12, LAMBDA b : setReview(b, form.review))

\* what the user does to the form of the edit dialog before the save button:
\* a new title, another status
FormEdits ==
    { [field |-> "title", text |-> <<" ", "b">>, value |-> 0],
      [field |-> "status", text |-> Empty, value |-> 2] }

EditForm(form, e) ==
    IF e.field = "title" THEN [form EXCEPT !.title = e.text]
    ELSE IF e.field = "status" THEN [form EXCEPT !.status = e.value]
    ELSE form

\* a slot of the window has returned: the window it leaves, the table and
\* counter of the database, and the last database call it made.  A read
\* whose row conversion raised has left its statement unfinalized.
Handled(w, slot, table, sequence, nchanges, lastCall, added) ==
    /\ window' = [w EXCEPT !.slot = slot]
    /\ rows' = table
    /\ seq' = sequence
    /\ changes' = nchanges
    /\ call' = lastCall
    /\ unfinalized' =
           (unfinalized \/ (/\ lastCall.exc = InvalidArgument
                            /\ lastCall.op \in {"getBook", "getAllBooks",
                                               "searchBooks"}))
    /\ liveIds' = liveIds \cup added
    /\ everIds' = everIds \cup added
    /\ UNCHANGED <<inTx, journal, handle, conn, txBase, txWrote, thisBook,
                   bookCall, thisSession, sessionCall>>

\* a slot that ends in loadBooks() on the table it has written
Reloaded(w, name, id, arg, text, table, sequence, nchanges, added) ==
    \E t \in {table} :
    \E r \in {StepRows(t, OrderById(DOMAIN t), SessionClock, <<>>)} :
    \E c \in {Call("getAllBooks", FALSE, <<>>, <<>>, 0, <<>>, r.exc, 0, FALSE,
                   r.books)} :
        Handled(loadBooks(w, c),
                [name |-> name, id |-> id, arg |-> arg, text |-> text,
                 failed |-> c.exc # NoExc],
                t, sequence, nchanges, c, added)

\* a slot that gave up after the database call c: a message box, or the
\* exception leaves the slot
GaveUp(w, name, id, arg, text, c) ==
    Handled(w, [name |-> name, id |-> id, arg |-> arg, text |-> text,
                failed |-> TRUE], rows, seq, changes, c, {})

\* m_database->getBook(id) of the open database
GetBookCall(id, now) ==
    LET r == IF id \in DOMAIN rows THEN bookFromStatement(id, rows[id], now)
             ELSE Done(BookDefault(now))
    IN  Call("getBook", FALSE, <<>>, <<>>, id, <<>>, r.exc, 0, FALSE,
             IF id \in DOMAIN rows /\ r.exc = NoExc THEN <<r.book>> ELSE <<>>)

\* m_database->updateBook(book) of the open database
UpdateBookCall(book) ==
    Call("updateBook", FALSE, <<book>>, <<book>>, 0, <<>>,
         IF book.m_id <= 0 THEN InvalidArgument ELSE NoExc, 0,
         book.m_id > 0 /\ book.m_id \in DOMAIN rows, <<>>)

\* MainWindow::MainWindow(parent) after it has opened the database
MainWindow ==
    /\ ~Shown
    /\ Reloaded(window, "MainWindow", 0, 0, Empty, rows, seq, changes, {})

\* MainWindow::onRefresh()
onRefresh ==
    /\ Shown
    /\ Reloaded(window, "onRefresh", 0, 0, Empty, rows, seq, changes, {})

\* MainWindow::onFilterChanged(index), the user picking entry index
onFilterChanged(index) ==
    /\ Shown
    /\ Reloaded(filterBooks([window EXCEPT !.m_filterCombo = index], index),
                "onFilterChanged", 0, index, Empty, rows, seq, changes, {})

\* MainWindow::onSearch(text), the user leaving text in the search box
onSearch(text) ==
    /\ Shown
    /\ LET w0 == [window EXCEPT !.m_searchBox = text]
           hits == {i \in DOMAIN rows : SearchWhere(rows[i], searchPattern(text))}
       IN  \E o \in OrderByTitle(rows, hits) :
           \E r \in {IF text = Empty
                      THEN [exc |-> NoExc, books |-> w0.m_allBooks]
                      ELSE StepRows(rows, o, SessionClock, <<>>)} :
               LET w1 == [w0 EXCEPT !.m_filteredBooks = r.books]
                   w2 == IF w1.m_filterCombo > 0
                         THEN filterBooks(w1, w1.m_filterCombo) ELSE w1
               IN  IF r.exc # NoExc
                   THEN GaveUp(w0, "onSearch", 0, 0, text,
                               Call("searchBooks", FALSE, <<>>, <<>>, 0, text,
                                    r.exc, 0, FALSE, <<>>))
                   ELSE Reloaded(w2, "onSearch", 0, 0, text, rows, seq,
                                 changes, {})

\* MainWindow::onUpdateProgress() with row k of the table selected and
\* newPage accepted in the input dialog
onUpdateProgress(k, newPage) ==
    /\ Shown
    /\ k \in DOMAIN window.m_bookTable
    /\ \E bookId \in {window.m_bookTable[k].m_id} :
       \E g \in {GetBookCall(bookId, SessionClock)} :
           IF g.retBooks = <<>>
           THEN GaveUp(window, "onUpdateProgress", bookId, newPage, Empty, g)
           ELSE \E book \in {g.retBooks[1]} :
                \E s \in {setCurrentPage(book, newPage, SessionClock)} :
                \E u \in {UpdateBookCall(s.book)} :
                    /\ newPage \in 0..book.m_pageCount
                    /\ IF s.exc # NoExc
                       THEN GaveUp(window, "onUpdateProgress", bookId, newPage,
                                   Empty, g)
                       ELSE IF u.exc # NoExc
                       THEN GaveUp(window, "onUpdateProgress", bookId, newPage,
                                   Empty, u)
                       ELSE Reloaded(window, "onUpdateProgress", bookId, newPage,
                                     Empty,
                                     UpdateWhereId(rows, bookId, bindUpdate(s.book)),
                                     seq, 1, {})

\* MainWindow::onEditBook() with row k of the table selected, the user
\* doing e to the form and pressing the save button
onEditBook(k, e) ==
    /\ Shown
    /\ k \in DOMAIN window.m_bookTable
    /\ \E bookId \in {window.m_bookTable[k].m_id} :
       \E g \in {GetBookCall(bookId, SessionClock)} :
           IF g.retBooks = <<>>
           THEN GaveUp(window, "onEditBook", bookId, e.value, e.text, g)
           ELSE \E form \in {EditForm(populateForm(g.retBooks[1]), e)} :
                \E d \in {BookDialog_getBook(form, TRUE, bookId, SessionClock)} :
                \E u \in {UpdateBookCall(d.book)} :
                    /\ validateForm(form) /\ onSave(form)
                    /\ IF d.exc # NoExc
                       THEN GaveUp(window, "onEditBook", bookId, e.value,
                                   e.text, g)
                       ELSE IF u.exc # NoExc
                       THEN GaveUp(window, "onEditBook", bookId, e.value,
                                   e.text, u)
                       ELSE Reloaded(window, "onEditBook", bookId, e.value,
                                     e.text,
                                     UpdateWhereId(rows, bookId, bindUpdate(d.book)),
                                     seq, 1, {})

\* MainWindow::onAddBook(), the user filling the form and pressing the save
\* button
onAddBook(form) ==
    /\ Shown
    /\ seq < MaxId
    /\ validateForm(form) /\ onSave(form)
    /\ \E d \in {BookDialog_getBook(form, FALSE, 0, SessionClock)} :
       \E newId \in {NextRowid(rows, seq)} :
           IF d.exc # NoExc
           THEN GaveUp(window, "onAddBook", 0, 0, form.title, call)
           ELSE Reloaded(window, "onAddBook", newId, 0, form.title,
                         InsertRow(rows, newId, bindInsert(d.book)), newId, 1,
                         {newId})

\* MainWindow::onDeleteBook() with row k of the table selected and the
\* question answered with Yes
onDeleteBook(k) ==
    /\ Shown
    /\ k \in DOMAIN window.m_bookTable
    /\ \E bookId \in {window.m_bookTable[k].m_id} :
           Reloaded(window, "onDeleteBook", bookId, 0, Empty,
                    DeleteWhereId(rows, bookId), seq,
                    IF bookId \in DOMAIN rows THEN 1 ELSE 0, {})

\* the files a session of the window opens: up to MaxId - 1 rows written by
\* earlier sessions
WindowFiles ==
    UNION {[1..n -> {bindInsert(PlainBook), bindInsert(ProgressBook)}] :
               n \in 0..(MaxId - 1)}

InitWindow ==
    /\ \E table \in WindowFiles :
           Database(table, Cardinality(DOMAIN table), FALSE, FALSE)
    /\ NoBookCall

NextWindow ==
    \/ MainWindow
    \/ onRefresh
    \/ \E text \in {Empty, <<"b">>} : onSearch(text)
    \/ \E index \in {0, 3} : onFilterChanged(index)
    \/ \E k \in 1..MaxId, n \in (MaxPages - 1)..MaxPages : onUpdateProgress(k, n)
    \/ \E k \in 1..MaxId, e \in FormEdits : onEditBook(k, e)
    \/ onAddBook([emptyForm EXCEPT !.title = <<"b">>, !.author = <<"a">>,
                                   !.pages = MaxPages])
    \/ \E k \in 1..MaxId : onDeleteBook(k)

SpecWindow == InitWindow /\ [][NextWindow]_vars

\* -------------------------------------------------------- ReadingSession
\* ReadingSession::ReadingSession(bookId, sessionDate, durationMinutes,
\* pagesRead, startPage, endPage, notes)
SessionParam(bookId, sessionDate, durationMinutes, pagesRead, startPage, endPage, notes) ==
    LET s == [ m_id |-> 0, m_bookId |-> bookId, m_sessionDate |-> sessionDate,
               m_durationMinutes |-> durationMinutes, m_pagesRead |-> pagesRead,
               m_startPage |-> startPage, m_endPage |-> endPage,
               m_notes |-> notes ]
    IN  IF bookId <= 0 THEN Throw(InvalidArgument, s)
        ELSE IF durationMinutes < 0 THEN Throw(InvalidArgument, s)
        ELSE IF pagesRead < 0 THEN Throw(InvalidArgument, s)
        ELSE IF startPage < 0 \/ endPage < 0 THEN Throw(InvalidArgument, s)
        ELSE IF endPage < startPage THEN Throw(InvalidArgument, s)
        ELSE Done(s)

\* the setters of ReadingSession; the result has the object in field book
Session_setId(s, id) ==
    IF id < 0 THEN Throw(InvalidArgument, s) ELSE Done([s EXCEPT !.m_id = id])

Session_setBookId(s, bookId) ==
    IF bookId <= 0 THEN Throw(InvalidArgument, s)
    ELSE Done([s EXCEPT !.m_bookId = bookId])

Session_setSessionDate(s, sessionDate) ==
    Done([s EXCEPT !.m_sessionDate = sessionDate])

Session_setDurationMinutes(s, durationMinutes) ==
    IF durationMinutes < 0 THEN Throw(InvalidArgument, s)
    ELSE Done([s EXCEPT !.m_durationMinutes = durationMinutes])

Session_setPagesRead(s, pagesRead) ==
    IF pagesRead < 0 THEN Throw(InvalidArgument, s)
    ELSE Done([s EXCEPT !.m_pagesRead = pagesRead])

Session_setStartPage(s, startPage) ==
    IF startPage < 0 THEN Throw(InvalidArgument, s)
    ELSE Done([s EXCEPT !.m_startPage = startPage])

Session_setEndPage(s, endPage) ==
    IF endPage < 0 THEN Throw(InvalidArgument, s)
    ELSE Done([s EXCEPT !.m_endPage = endPage])

Session_setNotes(s, notes) == Done([s EXCEPT !.m_notes = notes])

\* ReadingSession::isValid()
isValid(s) ==
    /\ s.m_bookId > 0 /\ s.m_durationMinutes >= 0 /\ s.m_pagesRead >= 0
    /\ s.m_startPage >= 0 /\ s.m_endPage >= s.m_startPage

\* a member function of thisSession has run with outcome r
SessionCalled(op, args, r) ==
    /\ thisSession' = r.book
    /\ sessionCall' = SessionCall(op, args, thisSession, r.exc)
    /\ UNCHANGED <<database, thisBook, bookCall, window>>

\* ReadingSession s(...) in place of thisSession; when the constructor
\* throws there is no new object and thisSession stays
ReadingSession(bookId, durationMinutes, pagesRead, startPage, endPage) ==
    LET r == SessionParam(bookId, 0, durationMinutes, pagesRead, startPage,
                          endPage, Empty)
    IN  SessionCalled("ReadingSession",
                      <<bookId, durationMinutes, pagesRead, startPage, endPage>>,
                      IF r.exc = NoExc THEN r ELSE Throw(r.exc, thisSession))

\* page arguments on both sides of the limit of every test
SessionPages == {-1, 0, MaxPages}

InitSession ==
    /\ Database(EmptyRows, 0, FALSE, FALSE)
    /\ window = NoWindow
    /\ thisBook = BookDefault(0)
    /\ bookCall = BookCall("Book", 0, 0, BookDefault(0), NoExc)
    /\ \E d \in 0..1, p, q \in SessionPages :
       \E s \in {SessionParam(1, 0, d, 0, p, q, Empty).book} :
           /\ SessionParam(1, 0, d, 0, p, q, Empty).exc = NoExc
           /\ thisSession = s
           /\ sessionCall = SessionCall("ReadingSession",
                  <<s.m_bookId, s.m_durationMinutes, s.m_pagesRead,
                    s.m_startPage, s.m_endPage>>, s, NoExc)

NextSession ==
    \/ \E b \in {0, 1}, d, n \in {-1, 0}, p, q \in SessionPages :
           ReadingSession(b, d, n, p, q)
    \/ \E i \in (-1)..1 :
           SessionCalled("setId", <<i>>, Session_setId(thisSession, i))
    \/ \E b \in (-1)..1 :
           SessionCalled("setBookId", <<b>>, Session_setBookId(thisSession, b))
    \/ \E t \in Times :
           SessionCalled("setSessionDate", <<t>>,
                         Session_setSessionDate(thisSession, t))
    \/ \E d \in (-1)..1 :
           SessionCalled("setDurationMinutes", <<d>>,
                         Session_setDurationMinutes(thisSession, d))
    \/ \E n \in (-1)..1 :
           SessionCalled("setPagesRead", <<n>>,
                         Session_setPagesRead(thisSession, n))
    \/ \E p \in SessionPages :
           SessionCalled("setStartPage", <<p>>,
                         Session_setStartPage(thisSession, p))
    \/ \E q \in SessionPages :
           SessionCalled("setEndPage", <<q>>,
                         Session_setEndPage(thisSession, q))
    \/ SessionCalled("setNotes", <<>>, Session_setNotes(thisSession, <<"a">>))

SpecSession == InitSession /\ [][NextSession]_vars

\* ------------------------------------------------------------ properties
\* a Book with its three timestamps cut to whole seconds
AtSeconds(b) ==
    [b EXCEPT !.m_startDate = {to_time_t(t) : t \in b.m_startDate},
              !.m_completionDate = {to_time_t(t) : t \in b.m_completionDate},
              !.m_dateAdded = to_time_t(b.m_dateAdded)]

\* the engine ran the statement of the call: the handle was open and no
\* failure was injected
EngineRan(c) == m_db /\ ~c.fault

\* s contains q as a substring, ASCII case folded
Contains(s, q) ==
    \E off \in 0..(Len(s) - Len(q)) :
        \A k \in 1..Len(q) : LowerChar(s[off + k]) = LowerChar(q[k])

RetIds(c) == [i \in 1..Len(c.retBooks) |-> c.retBooks[i].m_id]

\* C1: addBook(b) followed by getBook(returned id) yields a Book equal to b
\* in every field, timestamps compared at whole seconds, for every Book built
\* by the parameterized constructor, setters, markAsCompleted, resetProgress.
C1_RoundTrip ==
    [][ ( /\ call.op = "addBook" /\ call.exc = NoExc
          /\ call.bookIn[1] \in ParamBooks
          /\ call'.op = "getBook" /\ call'.id = call.retId
          /\ EngineRan(call') )
        => /\ call'.exc = NoExc
           /\ Len(call'.retBooks) = 1
           /\ AtSeconds(call'.retBooks[1]) = AtSeconds(call.bookOut[1]) ]_vars

\* C2: a successful rollbackTransaction leaves exactly the rows stored when
\* the matching beginTransaction returned; a successful commitTransaction
\* keeps every row as the writes of the transaction left it.
C2_Transactions ==
    [][ /\ (call'.op = "rollbackTransaction" /\ call'.exc = NoExc)
            => rows' = txBase.rows
        /\ (call'.op = "commitTransaction" /\ call'.exc = NoExc)
            => rows' = rows ]_vars

\* a rollback has undone at least one write
C2_Witness ==
    /\ call.op = "rollbackTransaction" /\ call.exc = NoExc
    /\ txWrote
    /\ rows = txBase.rows

\* C3: searchBooks("") returns the empty sequence whatever the table holds.
C3_EmptyQuery ==
    (call.op = "searchBooks" /\ call.query = <<>> /\ EngineRan(call))
        => (call.exc = NoExc /\ call.retBooks = <<>>)

\* every stored row has the non-empty title and author a Book built by the
\* parameterized constructor has
TitledRows == \A i \in DOMAIN rows : rows[i].title # <<>> /\ rows[i].author # <<>>

\* C4: for a non-empty query q, searchBooks(q) returns exactly the rows whose
\* title or author contains q, letter case ignored, each of them once
\* (stated for tables whose rows all carry a title and an author).
C4_SearchSubstring ==
    (call.op = "searchBooks" /\ call.query # <<>> /\ EngineRan(call) /\ TitledRows)
        => /\ call.exc = NoExc
           /\ {RetIds(call)[i] : i \in 1..Len(call.retBooks)}
                = {i \in DOMAIN rows : \/ Contains(rows[i].title, call.query)
                                       \/ Contains(rows[i].author, call.query)}
           /\ \A i, j \in 1..Len(call.retBooks) :
                  i # j => RetIds(call)[i] # RetIds(call)[j]

\* C5: updateBook(book) on an existing id returns true, leaves every other
\* row alone, and a following getBook(book.id) equals book in every field
\* (the read-back is stated for Books of the parameterized constructor).
C5_UpdateOverwrites ==
    [][ /\ ( /\ call'.op = "updateBook" /\ EngineRan(call')
             /\ call'.bookIn[1].m_id \in DOMAIN rows )
            => /\ call'.exc = NoExc /\ call'.retOk
               /\ DOMAIN rows' = DOMAIN rows
               /\ \A i \in DOMAIN rows \ {call'.bookIn[1].m_id} :
                      rows'[i] = rows[i]
        /\ ( /\ call.op = "updateBook" /\ call.exc = NoExc /\ call.retOk
             /\ [call.bookIn[1] EXCEPT !.m_id = 0] \in ParamBooks
             /\ call'.op = "getBook" /\ call'.id = call.bookIn[1].m_id
             /\ EngineRan(call') )
            => /\ call'.exc = NoExc
               /\ Len(call'.retBooks) = 1
               /\ AtSeconds(call'.retBooks[1]) = AtSeconds(call.bookIn[1]) ]_vars

\* the id a getBook, updateBook or deleteBook call addresses
TargetId(c) == IF c.op = "updateBook" THEN c.bookIn[1].m_id ELSE c.id

\* C6: with an id that matches no row, getBook returns the absent result and
\* updateBook (id > 0) and deleteBook return false; none raises and the table
\* is left as it was.
C6_NotFound ==
    [][ ( /\ call'.op \in {"getBook", "updateBook", "deleteBook"}
          /\ EngineRan(call')
          /\ TargetId(call') \notin DOMAIN rows
          /\ (call'.op = "updateBook" => TargetId(call') > 0) )
        => /\ call'.exc = NoExc
           /\ call'.retBooks = <<>>
           /\ call'.retOk = FALSE
           /\ rows' = rows ]_vars

\* updateBook reported "not found" on a table that holds other rows
C6_Witness ==
    /\ call.op = "updateBook" /\ call.exc = NoExc /\ ~call.retOk
    /\ m_db /\ ~call.fault
    /\ rows # EmptyRows
    /\ call.bookIn[1].m_id \notin DOMAIN rows

\* C7: deleteBook(id) returns true exactly when the row existed, removes that
\* row and no other; repeated at once with the same id it returns false.
C7_DeleteTwice ==
    [][ /\ (call'.op = "deleteBook" /\ EngineRan(call'))
            => /\ call'.exc = NoExc
               /\ call'.retOk = (call'.id \in DOMAIN rows)
               /\ DOMAIN rows' = DOMAIN rows \ {call'.id}
               /\ \A i \in DOMAIN rows' : rows'[i] = rows[i]
        /\ ( /\ call.op = "deleteBook" /\ call.exc = NoExc
             /\ call'.op = "deleteBook" /\ call'.id = call.id
             /\ EngineRan(call') )
            => (call'.exc = NoExc /\ ~call'.retOk) ]_vars

\* deleteBook returned false for an id that addBook once returned, with
\* another row still stored
C7_Witness ==
    /\ call.op = "deleteBook" /\ call.exc = NoExc /\ ~call.retOk
    /\ call.id \in everIds
    /\ rows # EmptyRows

\* C8: getAllBooks returns every stored row once, in strictly ascending id
\* order, and the empty sequence, without raising, for an empty table.
C8_GetAllBooks ==
    (call.op = "getAllBooks" /\ EngineRan(call))
        => /\ call.exc = NoExc
           /\ RetIds(call) = OrderById(DOMAIN rows)

C10_AddBookId ==
    [][ call'.op = "addBook"
        => /\ (call'.fault \/ ~m_db) => call'.exc = RuntimeError
           /\ call'.exc \in {NoExc, RuntimeError}
           /\ call'.exc = NoExc
                => /\ call'.retId > 0
                   /\ call'.bookOut[1] =
                          [call'.bookIn[1] EXCEPT !.m_id = call'.retId]
                   /\ call'.retId \notin DOMAIN rows
                   /\ DOMAIN rows' = DOMAIN rows \cup {call'.retId}
                   /\ \A i \in DOMAIN rows : rows'[i] = rows[i]
           /\ call'.exc = RuntimeError
                => /\ rows' = rows
                   /\ call'.bookOut = call'.bookIn
                   /\ call'.bookOut[1].m_id = 0 ]_vars

\* an insert failed inside the engine while the table held rows
C10_Witness ==
    /\ call.op = "addBook" /\ call.fault /\ m_db
    /\ call.exc = RuntimeError
    /\ call.bookOut[1].m_id = 0
    /\ rows # EmptyRows

\* C11: updateBook called with a Book whose id is <= 0 raises
\* std::invalid_argument before the statement is prepared, whether the
\* connection is open or closed and whatever the engine would have answered;
\* the table, the AUTOINCREMENT counter and the change count stay as they are.
C11_UpdateIdCheck ==
    [][ (call'.op = "updateBook" /\ call'.bookIn[1].m_id <= 0)
        => /\ call'.exc = InvalidArgument
           /\ ~call'.retOk
           /\ UNCHANGED <<rows, seq, changes, inTx, journal>> ]_vars

\* updateBook with id 0 was refused on a closed connection over a stored row
C11_Witness ==
    /\ call.op = "updateBook" /\ call.bookIn[1].m_id = 0
    /\ call.exc = InvalidArgument
    /\ ~m_db
    /\ DOMAIN rows # {}

\* the operations of Database that reach the engine
StoreOps ==
    {"addBook", "getBook", "getAllBooks", "searchBooks", "updateBook",
     "deleteBook", "beginTransaction", "commitTransaction",
     "rollbackTransaction"}

\* C12: once close() has run, every addBook, getBook, getAllBooks,
\* searchBooks, updateBook with id > 0, deleteBook, beginTransaction,
\* commitTransaction and rollbackTransaction raises std::runtime_error; none
\* returns a value and none changes the table.
C12_ClosedFailsFast ==
    [][ ( /\ ~m_db
          /\ call'.op \in StoreOps
          /\ ~(call'.op = "updateBook" /\ call'.bookIn[1].m_id <= 0) )
        => /\ call'.exc = RuntimeError
           /\ call'.retId = 0 /\ ~call'.retOk /\ call'.retBooks = <<>>
           /\ UNCHANGED <<rows, seq, inTx, journal, changes>> ]_vars

\* deleteBook of a stored row was refused after close()
C12_Witness ==
    /\ ~m_db
    /\ call.op = "deleteBook" /\ call.id \in DOMAIN rows
    /\ call.exc = RuntimeError

\* C13: beginTransaction called while a transaction is open raises
\* std::runtime_error and starts nothing: the open transaction, what its
\* rollback restores and the table stay as they are.
C13_NoNestedBegin ==
    [][ (call'.op = "beginTransaction" /\ inTx)
        => /\ call'.exc = RuntimeError
           /\ UNCHANGED <<rows, seq, inTx, journal>> ]_vars

\* a second beginTransaction was refused after a write of the open transaction
C13_Witness ==
    /\ call.op = "beginTransaction" /\ call.exc = RuntimeError
    /\ m_db /\ inTx /\ txWrote
    /\ rows # journal.rows

\* C14: when the constructor fails, in sqlite3_open or in initializeSchema,
\* no connection is left open behind it.
C14_ConstructionFailure ==
    (call.op = "Database" /\ call.exc # NoExc) => ~conn

\* C15: close() and ~Database() leave no connection behind and isOpen()
\* false; run on an object that was closed before, they change nothing.
C15_CloseOnce ==
    [][ call'.op \in {"close", "~Database"}
        => /\ ~conn'
           /\ ~(m_isOpen' /\ m_db')
           /\ ~m_db => UNCHANGED <<engine, handle, connection, observers>> ]_vars

\* C16: getBook returns a Book without start date for a row whose start_date
\* is NULL and without completion date for a row whose completion_date is
\* NULL, whatever page_count and current_page hold; a column that is not NULL
\* comes back as that timestamp.
C16_NullDates ==
    [][ (call'.op = "getBook" /\ call'.exc = NoExc /\ call'.retBooks # <<>>)
        => LET row == rows[call'.id]
               b == call'.retBooks[1]
           IN  /\ b.m_startDate = {from_time_t(s) : s \in row.start_date}
               /\ b.m_completionDate =
                      {from_time_t(s) : s \in row.completion_date} ]_vars

\* C17: getBook of a stored row returns a Book whose status is the stored
\* code when that is 0..4 and ToRead for every other code, and does not
\* raise.
C17_StatusDecode ==
    [][ (call'.op = "getBook" /\ EngineRan(call') /\ call'.id \in DOMAIN rows)
        => /\ call'.exc = NoExc
           /\ call'.retBooks # <<>>
           /\ call'.retBooks[1].m_status
                  = intToBookStatus(rows[call'.id].status) ]_vars

\* C18: every Book the constructors and setPageCount, setCurrentPage,
\* markAsCompleted and resetProgress produce has
\* 0 <= currentPage <= pageCount.
C18_ProgressRange ==
    /\ 0 <= thisBook.m_currentPage
    /\ thisBook.m_currentPage <= thisBook.m_pageCount

\* C19: a successful setCurrentPage(p) sets an absent start date to the
\* time of the call when p > 0, sets an absent completion date to it when p
\* equals a positive page count, and leaves a date that is present as it is;
\* a failing one changes nothing.
C19_AutoDates ==
    [][ bookCall'.op = "setCurrentPage"
        => LET p == bookCall'.arg
               t == bookCall'.now
           IN  IF bookCall'.exc # NoExc THEN thisBook' = thisBook
               ELSE /\ thisBook'.m_startDate =
                          IF thisBook.m_startDate # {} THEN thisBook.m_startDate
                          ELSE IF p > 0 THEN {t} ELSE {}
                    /\ thisBook'.m_completionDate =
                          IF thisBook.m_completionDate # {}
                          THEN thisBook.m_completionDate
                          ELSE IF p > 0 /\ p = thisBook.m_pageCount THEN {t}
                          ELSE {} ]_vars

\* reaching the last page at another time than the one the book was started
\* at set the completion date and kept the start date
C19_Witness ==
    /\ bookCall.op = "setCurrentPage" /\ bookCall.exc = NoExc
    /\ bookCall.before.m_startDate # {}
    /\ bookCall.now \notin bookCall.before.m_startDate
    /\ bookCall.before.m_completionDate = {}
    /\ thisBook.m_startDate = bookCall.before.m_startDate
    /\ thisBook.m_completionDate = {bookCall.now}

\* C20: markAsCompleted raises std::runtime_error and changes no field of a
\* Book with page count 0; on any other Book it sets the current page to the
\* page count and the completion date to the time of the call, changes no
\* other field, and isCompleted() is true afterwards.
C20_MarkAsCompleted ==
    [][ bookCall'.op = "markAsCompleted"
        => IF thisBook.m_pageCount = 0
           THEN bookCall'.exc = RuntimeError /\ thisBook' = thisBook
           ELSE /\ bookCall'.exc = NoExc
                /\ thisBook' = [thisBook EXCEPT
                                   !.m_currentPage = thisBook.m_pageCount,
                                   !.m_completionDate = {bookCall'.now}]
                /\ isCompleted(thisBook') ]_vars

\* a Book that was neither on its last page nor completed is completed
C20_Witness ==
    /\ bookCall.op = "markAsCompleted" /\ bookCall.exc = NoExc
    /\ ~isCompleted(bookCall.before)
    /\ isCompleted(thisBook)

\* C21: Book(title, author, isbn, pageCount) raises std::invalid_argument
\* exactly when title is empty, author is empty, pageCount is negative or
\* isbn is neither empty nor 13 characters long; otherwise it returns a Book
\* with these four values, id 0, current page 0 and no start or completion
\* date.
C21_Constructor ==
    [][ bookCall'.op = "Book"
        => LET title == bookCall'.text[1]
               author == bookCall'.text[2]
               isbn == bookCall'.text[3]
               pageCount == bookCall'.arg
           IN  IF \/ title = Empty \/ author = Empty \/ pageCount < 0
                  \/ (isbn # Empty /\ Len(isbn) # 13)
               THEN bookCall'.exc = InvalidArgument /\ thisBook' = thisBook
               ELSE /\ bookCall'.exc = NoExc
                    /\ thisBook'.m_title = title
                    /\ thisBook'.m_author = author
                    /\ thisBook'.m_isbn = isbn
                    /\ thisBook'.m_pageCount = pageCount
                    /\ thisBook'.m_id = 0
                    /\ thisBook'.m_currentPage = 0
                    /\ thisBook'.m_startDate = {}
                    /\ thisBook'.m_completionDate = {} ]_vars

\* a Book with a 13-character ISBN was constructed
C21_Witness ==
    /\ bookCall.op = "Book" /\ bookCall.exc = NoExc
    /\ Len(bookCall.text) = 3
    /\ Len(thisBook.m_isbn) = 13
    /\ thisBook # bookCall.before

\* the argument of a validating setter is outside what the setter accepts
InvalidSetterArg(c) ==
    \/ c.op \in {"setTitle", "setAuthor"} /\ c.text[1] = Empty
    \/ c.op = "setISBN" /\ Len(c.text[1]) \notin {0, 13}
    \/ c.op = "setPageCount" /\ c.arg < 0
    \/ c.op = "setRating" /\ (c.arg < 0 \/ c.arg > 5)
    \/ c.op = "setYearPublished" /\ (c.arg < 0 \/ c.arg > 9999)
    \/ c.op = "setStatus" /\ (c.arg < 0 \/ c.arg > 4)

\* C22: setTitle, setAuthor, setISBN, setPageCount, setRating,
\* setYearPublished and setStatus raise std::invalid_argument and leave the
\* Book as it is when the argument is invalid, and return normally when it is
\* valid.
C22_SetterValidation ==
    [][ bookCall'.op \in {"setTitle", "setAuthor", "setISBN", "setPageCount",
                          "setRating", "setYearPublished", "setStatus"}
        => IF InvalidSetterArg(bookCall')
           THEN bookCall'.exc = InvalidArgument /\ thisBook' = thisBook
           ELSE bookCall'.exc = NoExc ]_vars

\* a rating above 5 was refused on a Book that has a rating
C22_Witness ==
    /\ bookCall.op = "setRating" /\ bookCall.arg > 5
    /\ bookCall.exc = InvalidArgument
    /\ thisBook.m_rating > 0

\* C23: a call on a Book the caller holds, a copy of a returned Book
\* included, changes neither a stored row nor a Book of the last result; a
\* stored row takes new values only in a successful updateBook called with a
\* Book of its id.
C23_DisconnectedCopy ==
    [][ /\ bookCall' # bookCall => (rows' = rows /\ call' = call)
        /\ \A i \in DOMAIN rows \cap DOMAIN rows' :
               rows'[i] # rows[i]
               => /\ call'.op = "updateBook" /\ call'.exc = NoExc
                  /\ call'.bookIn[1].m_id = i ]_vars

\* the title of a Book read from the store was changed: the row and the
\* returned Book still have the old one
C23_Witness ==
    /\ bookCall.op = "setTitle" /\ bookCall.exc = NoExc
    /\ call.op \in {"getBook", "getAllBooks", "searchBooks"}
    /\ \E k \in DOMAIN call.retBooks :
           /\ call.retBooks[k].m_id = thisBook.m_id
           /\ call.retBooks[k].m_title # thisBook.m_title
           /\ rows[thisBook.m_id].title = c_str(call.retBooks[k].m_title)

\* the rows the table of the window should show: those whose title or author
\* matches the text of the search box and whose status is the one picked in
\* the filter
Matching(w) ==
    {i \in DOMAIN rows :
        /\ w.m_searchBox = Empty \/ SearchWhere(rows[i], searchPattern(w.m_searchBox))
        /\ w.m_filterCombo = 0
           \/ intToBookStatus(rows[i].status) = w.m_filterCombo - 1}

\* C24: after a search-box edit or a filter selection the table of the main
\* window shows exactly the books that match the current search text and the
\* selected status filter, each once.
C24_TableMatches ==
    (window.slot.name \in {"onSearch", "onFilterChanged"} /\ ~window.slot.failed)
    => /\ {window.m_bookTable[k].m_id : k \in DOMAIN window.m_bookTable}
              = Matching(window)
       /\ Len(window.m_bookTable) = Cardinality(Matching(window))

\* C25: when Update Progress sets a book with pages to its last page, the
\* stored status of the book becomes Completed (2).
C25_AutoComplete ==
    [][ (/\ window'.slot.name = "onUpdateProgress" /\ ~window'.slot.failed
         /\ window'.slot.id \in DOMAIN rows
         /\ rows[window'.slot.id].page_count > 0
         /\ window'.slot.arg = rows[window'.slot.id].page_count)
        => rows'[window'.slot.id].status = 2 ]_vars

\* C26: a read of an open database whose engine fails nothing never raises
\* while it converts a stored row.
C26_ReadBack ==
    [][ (call'.op \in {"getBook", "getAllBooks", "searchBooks"} /\ ~call'.fault)
        => call'.exc # InvalidArgument ]_vars

\* C27: no prepared statement is left unfinalized on the connection.
C27_Finalized == ~unfinalized

\* C28: a Book that carries an id assigned by addBook keeps it: a further
\* addBook with the Book leaves the id it came with, and so does a setter.
C28_IdentityKept ==
    [][ /\ (/\ call'.op = "addBook" /\ call'.exc = NoExc /\ rows' # rows
            /\ call'.bookIn[1].m_id \in everIds)
           => call'.bookOut[1].m_id = call'.bookIn[1].m_id
        /\ (/\ bookCall' # bookCall /\ bookCall'.op # "copy"
            /\ thisBook.m_id \in everIds)
           => thisBook'.m_id = thisBook.m_id ]_vars

\* C29: saving the edit dialog leaves the stored start date, completion
\* date, cover path and date added of the book as they were.
C29_EditKeepsHidden ==
    [][ (/\ window'.slot.name = "onEditBook" /\ ~window'.slot.failed
         /\ window'.slot.id \in DOMAIN rows)
        => LET old == rows[window'.slot.id]
               new == rows'[window'.slot.id]
           IN  /\ new.start_date = old.start_date
               /\ new.completion_date = old.completion_date
               /\ new.cover_path = old.cover_path
               /\ new.date_added = old.date_added ]_vars

\* C30: a ReadingSession built by the parameterized constructor and changed
\* by its setters is valid: bookId > 0, duration, pages read and start page
\* not negative, end page not before start page.
C30_SessionValid == isValid(thisSession)

====
